---- MODULE Spec2Model ----
(***************************************************************************)
(* BlackRoad Command Center (src/src/index.ts): the Worker's fetch entry   *)
(* point, its route matcher, the provider handlers and the agent store.    *)
(*                                                                         *)
(* Strings that take part in routing are sequences of tokens: "/" is the   *)
(* separator, "." stands for a character outside [\w-], every other token  *)
(* is a run of word characters.  No token is a concatenation of others, so *)
(* two token sequences are equal exactly when the strings are.             *)
(***************************************************************************)
EXTENDS Integers, Sequences, FiniteSets, TLC

\* ------------------------------------------------------------------ bounds
NSlots == 2        \* agent requests in flight at once
MaxAgents == 2     \* rows the record store holds
MaxChannels == 2   \* length of a notify channel list
MaxStripe == 1     \* products (and prices) the payments upstream creates
MaxSha == 2        \* revisions the content store hands out
MaxDepth == 3      \* segments of a probed path

Slots == 1..NSlots

\* ------------------------------------------------------------------ strings
Undefined == "undefined"

S(t) == <<t>>
P2(a, b) == <<"/", a, "/", b>>

IsWord(t) == t \notin {"/", "."}

\* String.prototype.startsWith
StartsWith(p, pre) ==
    /\ Len(p) >= Len(pre)
    /\ SubSeq(p, 1, Len(pre)) = pre

\* the pattern without its end anchor
MatchIdUnanchored(p, pre) ==
    /\ Len(p) > Len(pre)
    /\ SubSeq(p, 1, Len(pre)) = pre
    /\ IsWord(p[Len(pre) + 1])

\* path.match(/^<pre>[\w-]+$/): the literal prefix, then one or more word characters
MatchId(p, pre) ==
    /\ Len(p) > Len(pre)
    /\ SubSeq(p, 1, Len(pre)) = pre
    /\ \A i \in (Len(pre) + 1)..Len(p) : IsWord(p[i])

RECURSIVE SplitFrom(_, _, _)
SplitFrom(p, i, cur) ==
    IF i > Len(p) THEN <<cur>>
    ELSE IF p[i] = "/" THEN <<cur>> \o SplitFrom(p, i + 1, <<>>)
    ELSE SplitFrom(p, i + 1, Append(cur, p[i]))

\* path.split('/'); element k of the JavaScript array is Split(p)[k + 1]
Split(p) == SplitFrom(p, 1, <<>>)

\* ------------------------------------------------------------------ envelope
corsHeaders ==
    ("Access-Control-Allow-Origin" :> "*") @@
    ("Access-Control-Allow-Methods" :> "GET, POST, PUT, DELETE, OPTIONS") @@
    ("Access-Control-Allow-Headers" :> "Content-Type, Authorization, X-API-Key")

Response(status, headers, body) ==
    [kind |-> "response", status |-> status, headers |-> headers, body |-> body]

\* JSON.stringify drops the members whose value is undefined
Stringify(obj) ==
    [k \in {f \in DOMAIN obj : obj[f] # Undefined} |-> obj[k]]

\* a response built without the shared headers
jsonBare(data, status) ==
    Response(status, ("Content-Type" :> "application/json"), data)

json(data, status) ==
    Response(status, ("Content-Type" :> "application/json") @@ corsHeaders, data)

Preflight == Response(200, corsHeaders, [null |-> "null"])

\* a rejected promise: the failure leaves the handler as an exception
Rejected(message) == [kind |-> "rejected", message |-> message]

Pending == [kind |-> "pending"]

\* ------------------------------------------------------------------ requests
Methods == {"GET", "POST", "PUT", "OPTIONS"}

NoBody == [tag |-> "none"]

\* one request in flight: where its handler stands (pc), what it has read and
\* computed so far, the upstream calls it has issued, what they settled to
\* (replies), the failure its handler raised, and how the request ended (out)
Slot(pc, handler, method, path) ==
    [pc |-> pc, handler |-> handler, method |-> method, path |-> path,
     body |-> NoBody, sha |-> Undefined, product |-> NoBody, priceObj |-> NoBody,
     id |-> <<>>, logged |-> 0, calls |-> <<>>, replies |-> <<>>,
     failure |-> "none", out |-> Pending]

Idle == Slot("idle", "none", "GET", <<>>)

Done(slot, out) == [slot EXCEPT !.pc = "done", !.out = out]

\* the handler raises a failure.  Every handler is an async function, so the
\* failure rejects the handler's promise; fetch returns that promise from
\* inside its try block without awaiting it, so the catch clause does not see
\* the rejection and the caller gets it as it is
Raise(slot, message) ==
    [slot EXCEPT !.pc = "done", !.failure = message, !.out = Rejected(message)]

Call(api, method, endpoint, body) ==
    [api |-> api, method |-> method, endpoint |-> endpoint, body |-> body]

\* the handler issues an adapter call and waits for its promise
Await(slot, call) == [slot EXCEPT !.pc = "call", !.calls = Append(@, call)]

\* the handler issues a record-store statement and waits for it
AwaitDb(slot, call) == [slot EXCEPT !.pc = "db", !.calls = Append(@, call)]

\* the 404 of the entry point lists the prefixes under "routes"
NotFound(error, routes) == json([error |-> error, routes |-> routes], 404)

\* the 404 of a handler group lists the group's routes under "available"
Unknown(error, available) == json([error |-> error, available |-> available], 404)

\* ------------------------------------------------------------------ handlers: entry
\* Each handle* operator is the handler from its first line to its first await.

handleGitHub(method, path) ==
    IF path = P2("github", "orgs") /\ method = "GET"
    THEN Await(Slot("call", "gh_orgs", method, path),
               Call("github", "GET", <<"user", "orgs">>, NoBody))
    ELSE IF MatchId(path, <<"/", "github", "/", "repos", "/">>) /\ method = "GET"
    THEN Await(Slot("call", "gh_repos", method, path),
               Call("github", "GET", <<"orgs", Split(path)[4], "repos">>, NoBody))
    ELSE IF path = P2("github", "repo") /\ method = "POST"
    THEN Slot("body", "gh_repo", method, path)
    ELSE IF path = P2("github", "file") /\ method = "POST"
    THEN Slot("body", "gh_file", method, path)
    ELSE Done(Slot("done", "none", method, path),
              Unknown("Unknown GitHub route",
                       <<"/github/orgs", "/github/repos/:org", "/github/repo", "/github/file">>))

handleStripe(method, path) ==
    IF path = P2("stripe", "products") /\ method = "GET"
    THEN Await(Slot("call", "stripe_products", method, path),
               Call("stripe", "GET", <<"products">>, NoBody))
    ELSE IF path = P2("stripe", "product") /\ method = "POST"
    THEN Slot("body", "stripe_product", method, path)
    ELSE IF path = P2("stripe", "customers") /\ method = "GET"
    THEN Await(Slot("call", "stripe_customers", method, path),
               Call("stripe", "GET", <<"customers">>, NoBody))
    ELSE Done(Slot("done", "none", method, path),
              Unknown("Unknown Stripe route",
                       <<"/stripe/products", "/stripe/product", "/stripe/customers">>))

handleHuggingFace(method, path) ==
    IF path = P2("hf", "models") /\ method = "GET"
    THEN Await(Slot("call", "hf_models", method, path),
               Call("hf", "GET", <<"models">>, NoBody))
    ELSE IF path = P2("hf", "spaces") /\ method = "GET"
    THEN Await(Slot("call", "hf_spaces", method, path),
               Call("hf", "GET", <<"spaces">>, NoBody))
    ELSE Done(Slot("done", "none", method, path),
              Unknown("Unknown HF route", <<"/hf/models?q=", "/hf/spaces?q=">>))

handleCloudflare(method, path) ==
    IF path = P2("cf", "workers") /\ method = "GET"
    THEN Await(Slot("call", "cf_workers", method, path),
               Call("cf", "GET", <<"workers", "scripts">>, NoBody))
    ELSE IF path = P2("cf", "kv") /\ method = "GET"
    THEN Await(Slot("call", "cf_kv", method, path),
               Call("cf", "GET", <<"storage", "kv", "namespaces">>, NoBody))
    ELSE IF path = P2("cf", "d1") /\ method = "GET"
    THEN Await(Slot("call", "cf_d1", method, path),
               Call("cf", "GET", <<"d1", "database">>, NoBody))
    ELSE Done(Slot("done", "none", method, path),
              Unknown("Unknown CF route", <<"/cf/workers", "/cf/kv", "/cf/d1">>))

handleAgents(method, path) ==
    IF path = <<"/", "agents">> /\ method = "GET"
    THEN AwaitDb(Slot("db", "agents_list", method, path),
                 Call("db", "SELECT", <<"agents">>, NoBody))
    ELSE IF path = <<"/", "agents">> /\ method = "POST"
    THEN Slot("body", "agents_create", method, path)
    ELSE IF MatchId(path, <<"/", "agents", "/">>) /\ method = "GET"
    THEN AwaitDb([Slot("db", "agents_get", method, path) EXCEPT !.id = Split(path)[3]],
                 Call("db", "SELECT", <<"agents">>, [id |-> Split(path)[3]]))
    ELSE Done(Slot("done", "none", method, path),
              Unknown("Unknown agents route", <<"/agents", "/agents/:id">>))

handleNotify(method, path) ==
    IF method # "POST"
    THEN Done(Slot("done", "notify", method, path), json([error |-> "POST only"], 405))
    ELSE Slot("body", "notify", method, path)

handleStats(method, path) ==
    Done(Slot("done", "stats", method, path),
         json([timestamp |-> "now",
               github |-> [orgs |-> "15", repos |-> "315+"],
               cloudflare |-> [workers |-> "82", d1 |-> "11", kv |-> "20"],
               stripe |-> [account |-> "acct_1SUDM8ChUUSEbzyh"],
               huggingface |-> [user |-> "blackroadio"]], 200))

\* fetch, from its first line to the handler's first await.  The handler's
\* promise is returned from inside the try block without being awaited.
fetch(method, path) ==
    IF method = "OPTIONS"
    THEN Done(Slot("done", "preflight", method, path), Preflight)
    ELSE IF path = <<"/">> \/ path = <<"/", "health">>
    THEN Done(Slot("done", "health", method, path),
              json([status |-> "ok", service |-> "blackroad-command-center", version |-> "1.0.0"], 200))
    ELSE IF StartsWith(path, <<"/", "github">>) THEN handleGitHub(method, path)
    ELSE IF StartsWith(path, <<"/", "stripe">>) THEN handleStripe(method, path)
    ELSE IF StartsWith(path, <<"/", "hf">>) THEN handleHuggingFace(method, path)
    ELSE IF StartsWith(path, <<"/", "cf">>) THEN handleCloudflare(method, path)
    ELSE IF StartsWith(path, <<"/", "agents">>) THEN handleAgents(method, path)
    ELSE IF StartsWith(path, <<"/", "notify">>) THEN handleNotify(method, path)
    ELSE IF path = <<"/", "stats">> THEN handleStats(method, path)
    ELSE Done(Slot("done", "none", method, path),
              NotFound("Not found",
                       <<"/github", "/stripe", "/hf", "/cf", "/agents", "/notify", "/stats">>))

\* ------------------------------------------------------------------ state
VARIABLES
    slots,           \* Slots -> the request each slot is serving
    agents,          \* the record store's agents table, in insertion order
    uuids,           \* how many identifiers crypto.randomUUID has produced
    ghFile,          \* content store: the target file's sha, or "absent"
    stripeProducts,  \* payments upstream: ids of the products it holds
    stripePrices     \* payments upstream: the prices it holds, [id, product]

vars == <<slots, agents, uuids, ghFile, stripeProducts, stripePrices>>

Shas == {"s" \o ToString(i) : i \in 1..MaxSha}

\* crypto.randomUUID(): the n-th identifier; no two calls return the same one
randomUUID(n) == S("u" \o ToString(n))

Now == "now"

Init ==
    /\ slots = [s \in Slots |-> Idle]
    /\ agents = <<>>
    /\ uuids = 0
    /\ ghFile = "absent"
    /\ stripeProducts = {}
    /\ stripePrices = {}

\* ------------------------------------------------------------------ request bodies
\* property access on a parsed JSON object; a missing member reads as undefined
Field(obj, f) == IF f \in DOMAIN obj THEN obj[f] ELSE Undefined

\* a destructuring default applies to a member that is undefined
OrDefault(v, d) == IF v = Undefined THEN d ELSE v

ChannelNames == {"log", "slack", "unknown-channel"}

ChannelLists == UNION {[1..n -> ChannelNames] : n \in 0..MaxChannels}

\* the JSON bodies the model sends to each handler that reads one
Bodies(handler) ==
    CASE handler = "gh_repo" ->
           {[name |-> "my-new-repo", org |-> o] : o \in {Undefined, "BlackRoad-AI"}}
      [] handler = "gh_file" ->
           {[repo |-> "docs", path |-> "README.md", content |-> c] : c \in {"hello", "snowman"}}
      [] handler = "stripe_product" ->
           {[name |-> "Pro Plan", price |-> "29.99", recurring |-> r] : r \in {Undefined, "month"}}
      [] handler = "agents_create" ->
           {[name |-> "Atlas", type |-> Undefined, capabilities |-> [tag |-> "absent"]],
            [name |-> "Atlas", type |-> "researcher",
             capabilities |-> [tag |-> "list", list |-> <<"search", "analyze">>]]}
      [] handler = "notify" ->
           {[message |-> "hi", channels |-> [tag |-> "absent"]],
            [message |-> "hi", channels |-> [tag |-> "null"]]}
           \cup {[message |-> "hi", channels |-> [tag |-> "list", list |-> l]] : l \in ChannelLists}
      [] OTHER -> {}

\* btoa throws on a character above U+00FF
NonLatin1 == {"snowman"}

btoa(content) == "base64:" \o content

RECURSIVE NotifyLoopAll(_, _, _)
\* a loop that records every channel it is given
NotifyLoopAll(channels, i, acc) ==
    IF i > Len(channels) THEN acc
    ELSE NotifyLoopAll(channels, i + 1,
                       [results |-> (channels[i] :> "true") @@ acc.results,
                        logged |-> acc.logged + 1])

RECURSIVE NotifyLoop(_, _, _)
\* the for..of loop of handleNotify from position i on; acc holds the results
\* object and the number of lines written to the console
NotifyLoop(channels, i, acc) ==
    IF i > Len(channels) THEN acc
    ELSE IF channels[i] = "log"
    THEN NotifyLoop(channels, i + 1,
                    [results |-> ("log" :> "true") @@ acc.results, logged |-> acc.logged + 1])
    ELSE NotifyLoop(channels, i + 1, acc)

\* a row keyed by the agent's name
AgentRowByName(id, body) ==
    [id |-> S(body.name), name |-> body.name, type |-> OrDefault(body.type, "general"),
     capabilities |-> [json |-> IF body.capabilities.tag = "absent" THEN <<>>
                                ELSE body.capabilities.list],
     birthday |-> Now, created_at |-> Now]

\* the agents row bound to the INSERT statement
AgentRow(id, body) ==
    [id |-> id, name |-> body.name, type |-> OrDefault(body.type, "general"),
     capabilities |-> [json |-> IF body.capabilities.tag = "absent" THEN <<>>
                                ELSE body.capabilities.list],
     birthday |-> Now, created_at |-> Now]

\* the handler from the point where request.json() has resolved with body to
\* its next await (or its end); n is the identifier randomUUID would return
AfterBody(slot, body, n) ==
    LET r == [slot EXCEPT !.body = body] IN
    CASE slot.handler = "gh_repo" ->
           Await(r, Call("github", "POST", <<"orgs", OrDefault(body.org, "BlackRoad-OS"), "repos">>,
                         [name |-> body.name, description |-> "", private |-> "false",
                          auto_init |-> "true"]))
      [] slot.handler = "gh_file" ->
           IF body.content \in NonLatin1
           THEN Raise(r, "Invalid character")
           ELSE Await(r, Call("github", "GET", <<"repos", "contents">>, NoBody))
      [] slot.handler = "stripe_product" ->
           Await(r, Call("stripe", "POST", <<"products">>,
                         [name |-> body.name, description |-> ""]))
      [] slot.handler = "agents_create" ->
           AwaitDb([r EXCEPT !.id = randomUUID(n)],
                   Call("db", "INSERT", <<"agents">>, AgentRow(randomUUID(n), body)))
      [] slot.handler = "notify" ->
           IF body.channels.tag = "null"
           THEN Raise(r, "channels is not iterable")
           ELSE LET l == IF body.channels.tag = "absent" THEN <<"log">> ELSE body.channels.list
                    e == NotifyLoop(l, 1, [results |-> <<>>, logged |-> 0])
                IN  Done([r EXCEPT !.logged = e.logged],
                         json([sent |-> "true", channels |-> e.results], 200))

\* ------------------------------------------------------------------ upstreams
\* What an adapter's promise settles to.  fetch(...).then(r => r.json()) rejects
\* when the transport fails or the body is not JSON, and otherwise resolves with
\* the parsed body whatever the upstream's status code was.
Failed(message) == [kind |-> "rejected", message |-> message]

\* ok is the upstream's verdict (a 2xx status); the adapter never reads it
Parsed(data) == [kind |-> "json", ok |-> TRUE, data |-> data]

ParsedError(data) == [kind |-> "json", ok |-> FALSE, data |-> data]

Array(items) == [array |-> items]

IsArray(data) == "array" \in DOMAIN data

Failures == {Failed("fetch failed"), Failed("Unexpected token < in JSON")}

ErrorBody == ParsedError([message |-> "Bad credentials"])

Upstream(file, products, prices) ==
    [ghFile |-> file, stripeProducts |-> products, stripePrices |-> prices]

\* the content store's answer to the write: it accepts a create without a
\* marker and an update carrying the current revision, and refuses the rest
PutContents(call, up) ==
    LET marker == Field(call.body, "sha") IN
    IF (up.ghFile = "absent" /\ marker = Undefined) \/ (up.ghFile # "absent" /\ marker = up.ghFile)
    THEN {[reply |-> Parsed([content |-> [html_url |-> "https://github.com/file"]]),
           up |-> [up EXCEPT !.ghFile = n]] : n \in Shas \ {up.ghFile}}
    ELSE {[reply |-> ParsedError([message |-> "sha does not match"]), up |-> up]}

\* the payments upstream's answer to a creation
PostStripe(call, up) ==
    CASE call.endpoint = <<"products">> ->
           IF Cardinality(up.stripeProducts) < MaxStripe
           THEN LET id == "prod_" \o ToString(Cardinality(up.stripeProducts) + 1) IN
                {[reply |-> Parsed([id |-> id, name |-> call.body.name]),
                  up |-> [up EXCEPT !.stripeProducts = @ \cup {id}]]}
           ELSE {}
      [] call.endpoint = <<"prices">> ->
           IF call.body.product \in up.stripeProducts /\ Cardinality(up.stripePrices) < MaxStripe
           THEN LET id == "price_" \o ToString(Cardinality(up.stripePrices) + 1) IN
                {[reply |-> Parsed([id |-> id]),
                  up |-> [up EXCEPT !.stripePrices = @ \cup {[id |-> id, product |-> call.body.product]}]]}
           ELSE {}
      [] call.endpoint = <<"payment_links">> ->
           IF \E pr \in up.stripePrices : pr.id = call.body["line_items[0][price]"]
           THEN {[reply |-> Parsed([url |-> "https://buy.stripe.com/link"]), up |-> up]}
           ELSE {}
      [] OTHER -> {}

\* the successful answers of the read-only endpoints
GetOk(call, up) ==
    CASE call.api = "github" /\ call.endpoint = <<"user", "orgs">> ->
           {Parsed(Array(<<[login |-> "BlackRoad-OS", html_url |-> "https://github.com/BlackRoad-OS"]>>))}
      [] call.api = "github" /\ call.endpoint[1] = "orgs" ->
           {Parsed(Array(<<[name |-> "command-center", html_url |-> "https://github.com/r",
                            language |-> "TypeScript"]>>))}
      [] call.api = "github" /\ call.endpoint = <<"repos", "contents">> ->
           IF up.ghFile = "absent" THEN {ParsedError([message |-> "Not Found"])}
           ELSE {Parsed([sha |-> up.ghFile, name |-> "README.md"])}
      [] call.api = "stripe" /\ call.endpoint = <<"products">> ->
           {Parsed([data |-> Array(<<[id |-> "prod_0", name |-> "Basic"]>>)])}
      [] call.api = "stripe" /\ call.endpoint = <<"customers">> ->
           {Parsed([data |-> Array(<<[id |-> "cus_1", email |-> "a@b.c", name |-> "Ada",
                                      balance |-> "0"]>>)])}
      [] call.api = "hf" /\ call.endpoint = <<"models">> ->
           {Parsed(Array(<<[id |-> "gpt2", downloads |-> "10", likes |-> "2",
                            pipeline_tag |-> "text-generation"]>>))}
      [] call.api = "hf" /\ call.endpoint = <<"spaces">> ->
           {Parsed(Array(<<[id |-> "demo", sdk |-> "gradio"]>>))}
      [] call.api = "cf" /\ call.endpoint = <<"workers", "scripts">> ->
           {Parsed([success |-> "true", result |-> Array(<<[id |-> "cmd", modified_on |-> "now"]>>)])}
      [] call.api = "cf" /\ call.endpoint = <<"storage", "kv", "namespaces">> ->
           {Parsed([success |-> "true", result |-> Array(<<[id |-> "ns1", title |-> "cache"]>>)])}
      [] call.api = "cf" /\ call.endpoint = <<"d1", "database">> ->
           {Parsed([success |-> "true", result |-> Array(<<[uuid |-> "d1-1", name |-> "continuity"]>>)])}
      [] OTHER -> {}

\* every way the upstream can settle the call: [reply, up], up being the
\* upstream's state afterwards
Settle(call, up) ==
    {[reply |-> r, up |-> up] : r \in Failures \cup {ErrorBody}}
    \cup (IF call.method = "GET" THEN {[reply |-> r, up |-> up] : r \in GetOk(call, up)}
          ELSE IF call.method = "PUT" THEN PutContents(call, up)
          ELSE IF call.api = "stripe" THEN PostStripe(call, up)
          ELSE {[reply |-> Parsed([html_url |-> "https://github.com/new", name |-> call.body.name]),
                 up |-> up]})

\* ------------------------------------------------------------------ handlers: resumption
\* items.map(item => ({to: item.from, ...})), serialized
Project(items, fields) ==
    Array([i \in DOMAIN items |->
              Stringify([k \in DOMAIN fields |-> Field(items[i], fields[k])])])

\* new URLSearchParams(obj): every value is turned into a string, and an
\* undefined value into the text "undefined"
URLSearchParams(obj) == [k \in DOMAIN obj |-> IF obj[k] = Undefined THEN "undefined" ELSE obj[k]]

\* Math.round(price * 100) for the prices the model sends
MinorUnits(price) == CASE price = "29.99" -> "2999" [] OTHER -> "NaN"

EmptyBody == [tag |-> "empty"]

\* a write that never carries the marker the pre-check found
PutFileUnmarked(slot, sha) ==
    Await([slot EXCEPT !.sha = sha],
          Call("github", "PUT", <<"repos", "contents">>,
               Stringify([message |-> "Update via Command Center",
                          content |-> btoa(slot.body.content), sha |-> slot.sha])))

\* the write of POST /github/file, issued once the pre-check has set sha
PutFile(slot, sha) ==
    Await([slot EXCEPT !.sha = sha],
          Call("github", "PUT", <<"repos", "contents">>,
               Stringify([message |-> "Update via Command Center",
                          content |-> btoa(slot.body.content), sha |-> sha])))

\* a list handler: project the upstream array, or fail on anything else
MapList(slot, data, fields, message) ==
    IF IsArray(data) THEN Done(slot, json(Project(data.array, fields), 200))
    ELSE Raise(slot, message)

\* result.result?.map(...) || []
MapResult(slot, data, fields) ==
    IF "result" \in DOMAIN data
    THEN Done(slot, json(Project(data.result.array, fields), 200))
    ELSE Done(slot, json(Array(<<>>), 200))

\* a saga whose price names the product by its name instead of its id
StripeProductStepByName(slot, n, data) ==
    CASE n = 1 ->
           Await([slot EXCEPT !.product = data],
                 Call("stripe", "POST", <<"prices">>,
                      URLSearchParams([product |-> Field(data, "name"),
                                       unit_amount |-> MinorUnits(slot.body.price),
                                       currency |-> "usd"])))
      [] n = 2 ->
           Await([slot EXCEPT !.priceObj = data],
                 Call("stripe", "POST", <<"payment_links">>,
                      URLSearchParams(("line_items[0][price]" :> Field(data, "id"))
                                      @@ ("line_items[0][quantity]" :> "1"))))
      [] OTHER -> Done(slot, json(EmptyBody, 200))

\* POST /stripe/product after its n-th call resolved with data
StripeProductStep(slot, n, data) ==
    CASE n = 1 ->
           Await([slot EXCEPT !.product = data],
                 Call("stripe", "POST", <<"prices">>,
                      URLSearchParams(
                          (IF slot.body.recurring # Undefined
                           THEN ("recurring[interval]" :> slot.body.recurring) ELSE <<>>)
                          @@ [product |-> Field(data, "id"),
                              unit_amount |-> MinorUnits(slot.body.price),
                              currency |-> "usd"])))
      [] n = 2 ->
           Await([slot EXCEPT !.priceObj = data],
                 Call("stripe", "POST", <<"payment_links">>,
                      URLSearchParams(("line_items[0][price]" :> Field(data, "id"))
                                      @@ ("line_items[0][quantity]" :> "1"))))
      [] OTHER ->
           Done(slot,
                json([product |-> Stringify([id |-> Field(slot.product, "id"),
                                             name |-> Field(slot.product, "name")]),
                      price |-> Stringify([id |-> Field(slot.priceObj, "id"),
                                           amount |-> slot.body.price, currency |-> "usd"])]
                     @@ Stringify([payment_link |-> Field(data, "url")]), 200))

\* the handler from the point where its adapter call has settled to reply, up
\* to its next await or its end
Resume(slot, reply) ==
    LET n == Len(slot.calls)
        h == slot.handler
        data == reply.data
    IN
    IF reply.kind = "rejected"
    THEN IF h = "gh_file" /\ n = 1
         THEN PutFile(slot, Undefined)
         ELSE Raise(slot, reply.message)
    ELSE
    CASE h = "gh_orgs" ->
           MapList(slot, data, [name |-> "login", url |-> "html_url"], "orgs.map is not a function")
      [] h = "gh_repos" ->
           MapList(slot, data, [name |-> "name", url |-> "html_url", language |-> "language"],
                   "repos.map is not a function")
      [] h = "gh_repo" ->
           Done(slot, json(Stringify([created |-> "true", url |-> Field(data, "html_url"),
                                      name |-> Field(data, "name")]), 200))
      [] h = "gh_file" ->
           IF n = 1 THEN PutFile(slot, Field(data, "sha"))
           ELSE Done(slot, json(Stringify([success |-> "true",
                                           url |-> IF "content" \in DOMAIN data
                                                   THEN Field(data.content, "html_url")
                                                   ELSE Undefined]), 200))
      [] h = "stripe_products" ->
           Done(slot, json(IF "data" \in DOMAIN data THEN data.data ELSE EmptyBody, 200))
      [] h = "stripe_product" -> StripeProductStep(slot, n, data)
      [] h = "stripe_customers" ->
           IF "data" \in DOMAIN data
           THEN MapList(slot, data.data, [id |-> "id", email |-> "email", name |-> "name"],
                        "customers.data.map is not a function")
           ELSE Raise(slot, "Cannot read properties of undefined (reading 'map')")
      [] h = "hf_models" ->
           MapList(slot, data, [id |-> "id", downloads |-> "downloads", likes |-> "likes"],
                   "models.map is not a function")
      [] h = "hf_spaces" -> Done(slot, json(data, 200))
      [] h = "cf_workers" -> MapResult(slot, data, [name |-> "id", modified |-> "modified_on"])
      [] h = "cf_kv" -> MapResult(slot, data, [id |-> "id", title |-> "title"])
      [] h = "cf_d1" -> MapResult(slot, data, [id |-> "uuid", name |-> "name"])

\* ------------------------------------------------------------------ record store
Limit == 100

\* .all() of SELECT * FROM agents LIMIT 100
SelectAll(rows) == SubSeq(rows, 1, IF Len(rows) < Limit THEN Len(rows) ELSE Limit)

\* .first() of SELECT * FROM agents WHERE id = ?: the rows found
SelectById(rows, id) == {i \in DOMAIN rows : rows[i].id = id}

\* a lookup that answers a missing row with an empty 200
ResumeDbLenient(slot, rows) ==
    CASE slot.handler = "agents_list" -> Done(slot, json(Array(SelectAll(rows)), 200))
      [] slot.handler = "agents_create" ->
           Done(slot, json([created |-> "true", id |-> slot.id, name |-> slot.body.name], 200))
      [] slot.handler = "agents_get" ->
           IF SelectById(rows, slot.id) # {}
           THEN Done(slot, json(rows[CHOOSE i \in SelectById(rows, slot.id) : TRUE], 200))
           ELSE Done(slot, json(EmptyBody, 200))

\* the handler from the point where its statement has succeeded to its end
ResumeDb(slot, rows) ==
    CASE slot.handler = "agents_list" -> Done(slot, json(Array(SelectAll(rows)), 200))
      [] slot.handler = "agents_create" ->
           Done(slot, json([created |-> "true", id |-> slot.id, name |-> slot.body.name], 200))
      [] slot.handler = "agents_get" ->
           IF SelectById(rows, slot.id) # {}
           THEN Done(slot, json(rows[CHOOSE i \in SelectById(rows, slot.id) :
                                       \A j \in SelectById(rows, slot.id) : i <= j], 200))
           ELSE Done(slot, json([error |-> "Agent not found"], 404))

\* ------------------------------------------------------------------ inputs
\* the requests the gateway is sent: every documented route and, for every
\* group, requests that match none of its routes
ReqMethods == {"GET", "POST", "OPTIONS"}

ReqPaths ==
    {<<"/">>, <<"/", "health">>, <<"/", "stats">>, <<"/", "x">>,
     P2("github", "orgs"), P2("github", "repos") \o <<"/", "x", "-", "x">>,
     P2("github", "repo"), P2("github", "file"), P2("github", "x"),
     P2("stripe", "products"), P2("stripe", "product"), P2("stripe", "customers"),
     P2("hf", "models"), P2("hf", "spaces"), <<"/", "hf">>,
     P2("cf", "workers"), P2("cf", "kv"), P2("cf", "d1"), P2("cf", "."),
     <<"/", "agents">>, P2("agents", "x"), <<"/", "notify">>, P2("notify", "x")}
    \cup {<<"/", "agents", "/">> \o randomUUID(n) : n \in 1..MaxAgents}

\* ------------------------------------------------------------------ actions
\* agent creations admitted so far that have not drawn their identifier yet
Creating == Cardinality({s \in Slots : slots[s].handler = "agents_create" /\ slots[s].pc = "body"})

\* a request arrives and runs to its first await
Arrive(s, m, p) ==
    /\ fetch(m, p).handler = "agents_create" => uuids + Creating < MaxAgents
    /\ slots' = [slots EXCEPT ![s] = fetch(m, p)]
    /\ UNCHANGED <<agents, uuids, ghFile, stripeProducts, stripePrices>>

Receive(s) ==
    /\ slots[s].pc = "idle"
    /\ \E m \in ReqMethods, p \in ReqPaths : Arrive(s, m, p)

\* request.json() settles: it rejects on a body that is not JSON
ParseBody(s) ==
    /\ slots[s].pc = "body"
    /\ \/ /\ slots' = [slots EXCEPT ![s] = Raise(@, "Unexpected token in JSON")]
          /\ UNCHANGED uuids
       \/ \E b \in Bodies(slots[s].handler) :
            /\ slots' = [slots EXCEPT ![s] = AfterBody(@, b, uuids + 1)]
            /\ uuids' = IF slots[s].handler = "agents_create" THEN uuids + 1 ELSE uuids
    /\ UNCHANGED <<agents, ghFile, stripeProducts, stripePrices>>

\* the adapter call the request waits for settles
AdapterReturn(s) ==
    /\ slots[s].pc = "call"
    /\ \E o \in Settle(slots[s].calls[Len(slots[s].calls)],
                       Upstream(ghFile, stripeProducts, stripePrices)) :
         /\ slots' = [slots EXCEPT ![s] = Resume([@ EXCEPT !.replies = Append(@, o.reply)], o.reply)]
         /\ ghFile' = o.up.ghFile
         /\ stripeProducts' = o.up.stripeProducts
         /\ stripePrices' = o.up.stripePrices
    /\ UNCHANGED <<agents, uuids>>

\* the record-store statement the request waits for settles
DbReturn(s) ==
    /\ slots[s].pc = "db"
    /\ LET call == slots[s].calls[Len(slots[s].calls)] IN
       \/ /\ slots' = [slots EXCEPT ![s] = Raise([@ EXCEPT !.replies = Append(@, Failed("D1_ERROR"))],
                                                  "D1_ERROR")]
          /\ UNCHANGED agents
       \/ /\ agents' = IF call.method = "INSERT" THEN Append(agents, call.body) ELSE agents
          /\ slots' = [slots EXCEPT ![s] =
                          ResumeDb([@ EXCEPT !.replies = Append(@, Parsed(NoBody))], agents)]
    /\ UNCHANGED <<uuids, ghFile, stripeProducts, stripePrices>>

\* the caller has its answer; the slot is free again
Finish(s) ==
    /\ slots[s].pc = "done"
    /\ slots' = [slots EXCEPT ![s] = Idle]
    /\ UNCHANGED <<agents, uuids, ghFile, stripeProducts, stripePrices>>

\* somebody else creates, rewrites or deletes the target file
OtherWriter ==
    /\ ghFile' \in ({"absent"} \cup Shas) \ {ghFile}
    /\ UNCHANGED <<slots, agents, uuids, stripeProducts, stripePrices>>

\* the gateway serving one request at a time, against upstreams that other
\* parties use too
Next ==
    \/ Receive(1)
    \/ ParseBody(1)
    \/ AdapterReturn(1)
    \/ DbReturn(1)
    \/ Finish(1)
    \/ OtherWriter

Spec == Init /\ [][Next]_vars

\* ------------------------------------------------------------------ concurrent agent requests
AgentRequests ==
    {<<"GET", <<"/", "agents">> >>, <<"POST", <<"/", "agents">> >>,
     <<"GET", P2("agents", "x")>>, <<"POST", P2("agents", "x")>>,
     <<"GET", <<"/", "agents", "/">> \o randomUUID(1)>>}

ReceiveAgents(s) ==
    /\ slots[s].pc = "idle"
    /\ \E q \in AgentRequests : Arrive(s, q[1], q[2])

\* NSlots requests to the agents group in flight at once, interleaved at
\* their awaits
NextAgents ==
    \/ \E s \in Slots : ReceiveAgents(s)
    \/ \E s \in Slots : ParseBody(s)
    \/ \E s \in Slots : DbReturn(s)
    \/ \E s \in Slots : Finish(s)

SpecAgents == Init /\ [][NextAgents]_vars

\* ------------------------------------------------------------------ route probing
Group1 == {"github", "stripe", "hf", "cf", "agents", "notify", "stats", "health", "x"}

Leaf == {"orgs", "repos", "repo", "file", "products", "product", "customers",
         "models", "spaces", "workers", "kv", "d1", "x", "-", "."}

Seg1 == {S(g) \o t : g \in Group1, t \in {<<>>, <<"x">>}}

Seg2 == {<<>>} \cup {S(l) \o t : l \in Leaf, t \in {<<>>, <<"x">>}}

Seg3 == {<<>>, <<"x">>, <<"-">>, <<".">>, <<"x", "-">>, <<"x", ".">>, <<"orgs">>}

RECURSIVE PathsOfDepth(_)
\* the probed paths of exactly d segments
PathsOfDepth(d) ==
    IF d = 1 THEN {<<"/">> \o g : g \in Seg1}
    ELSE {p \o <<"/">> \o g : p \in PathsOfDepth(d - 1), g \in IF d = 2 THEN Seg2 ELSE Seg3}

RoutePaths == {<<"/">>} \cup UNION {PathsOfDepth(d) : d \in 1..MaxDepth}

\* any request at all arrives and is routed
Probe ==
    /\ slots[1].pc = "idle"
    /\ \E m \in Methods, p \in RoutePaths : Arrive(1, m, p)

\* the entry point applied to one request after another; what the handlers do
\* after their first await is left out
Discard ==
    /\ slots[1].pc # "idle"
    /\ slots' = [slots EXCEPT ![1] = Idle]
    /\ UNCHANGED <<agents, uuids, ghFile, stripeProducts, stripePrices>>

NextRoute ==
    \/ Probe
    \/ Discard

SpecRoute == Init /\ [][NextRoute]_vars

\* ------------------------------------------------------------------ C1: routing
\* the route table of the README, by method and path
DocumentedHandler(m, p) ==
    LET seg == Split(p) IN
    CASE m = "GET" /\ p = <<"/", "github", "/", "orgs">> -> "gh_orgs"
      [] m = "GET" /\ Len(seg) = 4 /\ seg[2] = <<"github">> /\ seg[3] = <<"repos">>
           /\ seg[4] # <<>> /\ (\A i \in DOMAIN seg[4] : seg[4][i] # ".") -> "gh_repos"
      [] m = "POST" /\ p = <<"/", "github", "/", "repo">> -> "gh_repo"
      [] m = "POST" /\ p = <<"/", "github", "/", "file">> -> "gh_file"
      [] m = "GET" /\ p = <<"/", "stripe", "/", "products">> -> "stripe_products"
      [] m = "POST" /\ p = <<"/", "stripe", "/", "product">> -> "stripe_product"
      [] m = "GET" /\ p = <<"/", "stripe", "/", "customers">> -> "stripe_customers"
      [] m = "GET" /\ p = <<"/", "hf", "/", "models">> -> "hf_models"
      [] m = "GET" /\ p = <<"/", "hf", "/", "spaces">> -> "hf_spaces"
      [] m = "GET" /\ p = <<"/", "cf", "/", "workers">> -> "cf_workers"
      [] m = "GET" /\ p = <<"/", "cf", "/", "kv">> -> "cf_kv"
      [] m = "GET" /\ p = <<"/", "cf", "/", "d1">> -> "cf_d1"
      [] m = "GET" /\ p = <<"/", "agents">> -> "agents_list"
      [] m = "POST" /\ p = <<"/", "agents">> -> "agents_create"
      [] m = "GET" /\ Len(seg) = 3 /\ seg[2] = <<"agents">>
           /\ seg[3] # <<>> /\ (\A i \in DOMAIN seg[3] : seg[3][i] # ".") -> "agents_get"
      [] m = "POST" /\ p = <<"/", "notify">> -> "notify"
      [] m = "GET" /\ p = <<"/", "stats">> -> "stats"
      [] m # "OPTIONS" /\ p \in {<<"/">>, <<"/", "health">>} -> "health"
      [] OTHER -> "none"

\* the group whose prefix the path falls under, "none" when it falls under none
GroupOf(p) ==
    IF Len(p) >= 2 /\ p[1] = "/" /\ p[2] \in {"github", "stripe", "hf", "cf", "agents", "notify"}
    THEN p[2] ELSE "none"

\* the route list each scope's 404 is to carry
RouteList(g) ==
    CASE g = "github" -> <<"/github/orgs", "/github/repos/:org", "/github/repo", "/github/file">>
      [] g = "stripe" -> <<"/stripe/products", "/stripe/product", "/stripe/customers">>
      [] g = "hf" -> <<"/hf/models?q=", "/hf/spaces?q=">>
      [] g = "cf" -> <<"/cf/workers", "/cf/kv", "/cf/d1">>
      [] g = "agents" -> <<"/agents", "/agents/:id">>
      [] g = "notify" -> <<"/notify">>
      [] OTHER -> <<"/github", "/stripe", "/hf", "/cf", "/agents", "/notify", "/stats">>

\* the response is a 404 that lists the routes of the scope the path is in
Is404For(out, p) ==
    /\ out.kind = "response"
    /\ out.status = 404
    /\ IF GroupOf(p) = "none"
       THEN "routes" \in DOMAIN out.body /\ out.body.routes = RouteList("none")
       ELSE "available" \in DOMAIN out.body /\ out.body.available = RouteList(GroupOf(p))
            /\ out.body.available # <<>>

\* C1 as stated: every documented (method, path) pair selects its documented
\* handler, and every other pair is answered 404 with the non-empty route list
\* of its scope (the group's own list under a group prefix, else the global one).
C1_AsStated ==
    \A s \in Slots : slots[s].pc # "idle" =>
        LET r == slots[s] IN
        IF DocumentedHandler(r.method, r.path) # "none"
        THEN r.handler = DocumentedHandler(r.method, r.path)
        ELSE Is404For(r.out, r.path)

\* C1 amended: a documented pair selects its documented handler.  Of the other
\* pairs, OPTIONS is answered by the preflight; /stats under any method selects
\* the stats handler; under the /notify prefix POST selects the notify handler
\* and any other method is answered 405 "POST only" with no route list; every
\* remaining pair is answered 404 with the non-empty route list of its scope.
C1_Routing ==
    \A s \in Slots : slots[s].pc # "idle" =>
        LET r == slots[s] IN
        IF DocumentedHandler(r.method, r.path) # "none"
        THEN r.handler = DocumentedHandler(r.method, r.path)
        ELSE IF r.method = "OPTIONS"
        THEN r.handler = "preflight" /\ r.out = Preflight
        ELSE IF r.path = <<"/", "stats">>
        THEN r.handler = "stats"
        ELSE IF GroupOf(r.path) = "notify"
        THEN IF r.method = "POST" THEN r.handler = "notify" /\ r.pc = "body"
             ELSE /\ r.out.kind = "response" /\ r.out.status = 405
                  /\ r.out.body = [error |-> "POST only"]
        ELSE r.handler = "none" /\ r.pc = "done" /\ Is404For(r.out, r.path)

\* a path under the /github prefix that is none of its routes got the group's list
C1_Witness ==
    /\ slots[1].pc = "done"
    /\ slots[1].path = <<"/", "github", "x", "/", "orgs">>
    /\ slots[1].method = "GET"
    /\ slots[1].out.status = 404
    /\ slots[1].out.body.available = RouteList("github")

\* ------------------------------------------------------------------ C2, C3: file upsert
\* the request is a POST /github/file that has issued its write
Wrote(r) == r.handler = "gh_file" /\ Len(r.calls) >= 2

\* the pre-check found the file: it resolved with metadata carrying a sha
Found(reply) == reply.kind = "json" /\ "sha" \in DOMAIN reply.data

\* C2: in POST /github/file the write is issued only after the metadata fetch
\* has settled, and its revision marker is the fetch's: absent when the fetch
\* failed or reported no file, and exactly the fetched sha otherwise.
C2_MarkerFromFetch ==
    \A s \in Slots : Wrote(slots[s]) =>
        LET r == slots[s] IN
        /\ r.calls[1].method = "GET" /\ r.calls[2].method = "PUT"
        /\ r.calls[1].endpoint = r.calls[2].endpoint
        /\ Len(r.replies) >= 1
        /\ IF Found(r.replies[1])
           THEN "sha" \in DOMAIN r.calls[2].body /\ r.calls[2].body.sha = r.replies[1].data.sha
           ELSE "sha" \notin DOMAIN r.calls[2].body

\* the file existed at the pre-check and the write carries its sha
C2_Witness ==
    /\ Wrote(slots[1])
    /\ Found(slots[1].replies[1])
    /\ slots[1].calls[2].body.sha = "s1"

\* the write was refused because the file no longer is at the fetched revision
Stale(r) ==
    /\ Wrote(r) /\ r.pc = "done" /\ Len(r.replies) = 2
    /\ Found(r.replies[1])
    /\ r.replies[2] = ParsedError([message |-> "sha does not match"])

\* C3: when the file changes between the fetch and the write and the upstream
\* refuses the write, the gateway issues no further call and its response
\* carries the upstream's failure unmodified instead of reporting success.
C3_AsStated ==
    \A s \in Slots : Stale(slots[s]) =>
        LET r == slots[s] IN
        /\ Len(r.calls) = 2
        /\ r.out.kind = "response"
        /\ r.out.body = r.replies[2].data
        /\ "success" \notin DOMAIN r.out.body

\* ------------------------------------------------------------------ C4, C5: failures
\* C4: a failure raised while a handler runs ends the request with a 500 whose
\* body is {error: message}; no request ends with the failure itself.
C4_AsStated ==
    \A s \in Slots : slots[s].pc = "done" /\ slots[s].failure # "none" =>
        slots[s].out = json([error |-> slots[s].failure], 500)

\* a collaborator's answer that is no success: a rejection or a non-2xx body
NonSuccess(reply) == reply.kind = "rejected" \/ ~reply.ok

\* C5: once a provider adapter or the record store has answered a handler with
\* a non-success result, the request ends with status 500 carrying the raw
\* message, never with 200, and the call is not repeated.
C5_AsStated ==
    \A s \in Slots :
        LET r == slots[s]
            last == r.replies[Len(r.replies)]
        IN
        r.pc = "done" /\ r.replies # <<>> /\ NonSuccess(last) =>
            /\ r.out.kind = "response"
            /\ r.out.status = 500
            /\ r.out.body = [error |-> last.message]
            /\ Len(r.calls) = Len(r.replies)

\* ------------------------------------------------------------------ C6: product saga
HasId(reply) == reply.kind = "json" /\ "id" \in DOMAIN reply.data

\* C6: POST /stripe/product issues product, price and payment-link creation in
\* that order, each at most once and nothing else; the price call names the id
\* the product call returned, the link call the id the price call returned;
\* and what was created upstream stays there whatever fails afterwards.
C6_Saga ==
    \A s \in Slots : slots[s].handler = "stripe_product" =>
        LET r == slots[s]
            order == <<S("products"), S("prices"), S("payment_links")>>
        IN
        /\ Len(r.calls) <= 3
        /\ \A i \in DOMAIN r.calls :
             r.calls[i].api = "stripe" /\ r.calls[i].method = "POST" /\ r.calls[i].endpoint = order[i]
        /\ Len(r.replies) >= Len(r.calls) - 1
        /\ Len(r.calls) >= 2 =>
             r.calls[2].body.product =
                 (IF HasId(r.replies[1]) THEN r.replies[1].data.id ELSE "undefined")
        /\ Len(r.calls) >= 3 =>
             r.calls[3].body["line_items[0][price]"] =
                 (IF HasId(r.replies[2]) THEN r.replies[2].data.id ELSE "undefined")
        /\ Len(r.replies) >= 1 /\ HasId(r.replies[1]) => r.replies[1].data.id \in stripeProducts
        /\ Len(r.replies) >= 2 /\ HasId(r.replies[2]) =>
             [id |-> r.replies[2].data.id, product |-> r.replies[1].data.id] \in stripePrices

\* the request is over, price creation failed, and the product is still upstream
C6_Witness ==
    /\ slots[1].handler = "stripe_product" /\ slots[1].pc = "done"
    /\ Len(slots[1].calls) = 3
    /\ HasId(slots[1].replies[1])
    /\ ~HasId(slots[1].replies[2])
    /\ slots[1].calls[2].body.product = "prod_1"
    /\ stripeProducts = {"prod_1"} /\ stripePrices = {}

\* ------------------------------------------------------------------ C7: notify
\* the channel names the request asks for
Requested(body) == IF body.channels.tag = "absent" THEN <<"log">> ELSE body.channels.list

\* C7: a POST /notify whose body names a sequence of channels (or none, which
\* stands for the single channel "log") always succeeds; its channels record
\* marks "log" as sent exactly when "log" is among the names, and has no entry
\* for any other name.
C7_Notify ==
    \A s \in Slots :
        LET r == slots[s] IN
        r.handler = "notify" /\ r.method = "POST" /\ r.body # NoBody
          /\ r.body.channels.tag \in {"absent", "list"} =>
            /\ r.pc = "done"
            /\ r.out = json([sent |-> "true", channels |-> r.out.body.channels], 200)
            /\ DOMAIN r.out.body.channels \subseteq {"log"}
            /\ ("log" \in DOMAIN r.out.body.channels) <=>
                 (\E i \in DOMAIN Requested(r.body) : Requested(r.body)[i] = "log")
            /\ \A k \in DOMAIN r.out.body.channels : r.out.body.channels[k] = "true"

C7_Witness ==
    /\ slots[1].handler = "notify" /\ slots[1].pc = "done"
    /\ slots[1].body # NoBody
    /\ slots[1].body.channels = [tag |-> "list", list |-> <<"log", "unknown-channel">>]
    /\ slots[1].out.status = 200
    /\ slots[1].out.body.channels = [log |-> "true"]

\* ------------------------------------------------------------------ C8, C9: agents
\* the request's record-store statement succeeded
Answered(r) == r.pc = "done" /\ Len(r.replies) = 1 /\ r.replies[1].kind = "json"

Stored(id) == \E i \in DOMAIN agents : agents[i].id = id

\* C8: whatever agents have been created, GET /agents/{id} for an id no stored
\* agent has is answered with the response 404 {"error": "Agent not found"},
\* and GET /agents on an empty store with 200 and an empty sequence.
C8_Missing ==
    \A s \in Slots :
        LET r == slots[s] IN
        /\ r.handler = "agents_get" /\ Answered(r) /\ ~Stored(Split(r.path)[3]) =>
             r.out = json([error |-> "Agent not found"], 404)
        /\ r.handler = "agents_list" /\ Answered(r) /\ agents = <<>> =>
             r.out = json(Array(<<>>), 200)

\* an agent has been created and a lookup of another id was answered 404
C8_Witness ==
    \E s \in Slots :
        /\ slots[s].handler = "agents_get" /\ Answered(slots[s])
        /\ Len(agents) >= 1
        /\ ~Stored(Split(slots[s].path)[3])
        /\ slots[s].out.status = 404

\* every stored agent has its own identifier, and a finished creation
\* returned the identifier of the one row it inserted
DistinctIds ==
    /\ \A i, j \in DOMAIN agents : agents[i].id = agents[j].id => i = j
    /\ \A s \in Slots :
         slots[s].handler = "agents_create" /\ Answered(slots[s]) =>
           /\ slots[s].out.status = 200
           /\ slots[s].out.body.id = slots[s].id
           /\ Cardinality({i \in DOMAIN agents : agents[i].id = slots[s].id}) = 1

\* a step keeps every stored row as it is and adds at most one
AppendOnly ==
    /\ Len(agents') \in {Len(agents), Len(agents) + 1}
    /\ \A i \in DOMAIN agents : agents'[i] = agents[i]

\* C9: under any interleaving of POST /agents requests, identical bodies
\* included, all stored agents have distinct identifiers; each creation inserts
\* one new row under a fresh identifier and returns it, and no step changes or
\* replaces a row stored earlier.
C9_UniqueIds == []DistinctIds /\ [][AppendOnly]_vars

\* two agents created from the same body are stored under different ids
C9_Witness ==
    /\ Len(agents) >= 2
    /\ [agents[1] EXCEPT !.id = <<>>] = [agents[2] EXCEPT !.id = <<>>]
    /\ agents[1].id # agents[2].id

\* ------------------------------------------------------------------ C10: CORS
\* C10: every response the gateway produces, whatever its status, carries the
\* three permissive CORS headers.
C10_Cors ==
    \A s \in Slots : slots[s].out.kind = "response" =>
        LET h == slots[s].out.headers IN
        /\ {"Access-Control-Allow-Origin", "Access-Control-Allow-Methods",
            "Access-Control-Allow-Headers"} \subseteq DOMAIN h
        /\ h["Access-Control-Allow-Origin"] = "*"
        /\ h["Access-Control-Allow-Methods"] = "GET, POST, PUT, DELETE, OPTIONS"
        /\ h["Access-Control-Allow-Headers"] = "Content-Type, Authorization, X-API-Key"

\* the domain 404 of a missing agent carries them
C10_Witness ==
    /\ slots[1].pc = "done"
    /\ slots[1].out.kind = "response"
    /\ slots[1].out.status = 404
    /\ slots[1].out.body = [error |-> "Agent not found"]
    /\ slots[1].out.headers["Access-Control-Allow-Origin"] = "*"

TypeOK == \A s \in Slots : slots[s].pc \in {"idle", "body", "call", "db", "done"}

====
